---- MODULE Spec2Model ----
(***************************************************************************)
(* Model of the alkoteka_parser core: the ProxyMiddleware (rotating proxy  *)
(* pool with blacklist) and the three item pipelines (ValidationPipeline,  *)
(* DefaultValuesPipeline, DataCleaningPipeline).                           *)
(*                                                                         *)
(* Scrapy calls downloader-middleware hooks and pipeline process_item      *)
(* methods synchronously on the reactor thread, so one hook call is one    *)
(* atomic action; overlapping in-flight requests interleave whole calls.   *)
(***************************************************************************)
EXTENDS Integers, Sequences, FiniteSets, TLC

\* ------------------------------------------------------------------ bounds
MaxPool == 3
MaxInFlight == 2
MaxCalls == 6
MaxPrice == 3       \* top-level prices range over -MaxPrice..MaxPrice halves
MaxNested == 2      \* nested prices range over -MaxNested..MaxNested halves
MaxOver == 2        \* discounts range MaxOver halves around 0 and around 100
MaxStock == 2       \* stock counts range over -MaxStock..MaxStock halves
MaxList == 3        \* tag and URL lists hold at most MaxList entries
MaxRecords == 2     \* records one DefaultValuesPipeline instance processes
MaxMutations == 2   \* later in-place changes of the records' containers
MaxOperand == 50    \* calculate_discount operands range over
MaxCount == 2       \* stock counts on a page range over 0..MaxCount
MaxLabels == 2      \* at most MaxLabels labels in one selector or JSON list
                    \* -MaxOperand..MaxOperand halves

\* --------------------------------------------------------------- constants
None == "None"
Proxies == {"p1", "p2", "p3"}

VARIABLES
    enabled,       \* ProxyMiddleware.enabled
    proxies,       \* ProxyMiddleware.proxies (list, load order)
    proxy_pool,    \* ProxyMiddleware.proxy_pool: -1 is None, else the index
                   \* (0-based) of the element cycle(proxies) yields next
    blacklist,     \* ProxyMiddleware.blacklist
    stats,         \* ProxyMiddleware.stats
    requests,      \* request slots: state and meta of each in-flight request
    last,          \* observation of the most recent hook call
    lastReport,    \* per proxy: the most recent outcome report
    counts,        \* observed numbers of calls, by kind
    record,        \* the item travelling through the item pipelines
    candidate,     \* the record as the spider yielded it
    stage,         \* where the record is in the pipeline chain
    trail,         \* the pipelines that processed the record, in order
    reasons,       \* required fields named by the DropItem message
    heap,          \* the list and dict objects, by identity
    defaults,      \* DefaultValuesPipeline.defaults: field -> object
    processed,     \* the records process_item returned: field -> object
    owned,         \* per record and field, the contents its owner gave it
    mutations,     \* number of in-place changes made so far
    arg_original,  \* calculate_discount: the argument original
    arg_current,   \* calculate_discount: the argument current
    discount,      \* calculate_discount: the returned value, absent before
    response,      \* the product page parse_product was called with
    parsed,        \* the extraction steps parse_product has made, in order
    stock,         \* parse_product: stock_data
    characteristics,  \* parse_product: characteristics
    variants_count    \* parse_product: variants_count
                   \* the call

proxyVars == <<enabled, proxies, proxy_pool, blacklist, stats, requests,
               last, lastReport, counts>>

pipeVars == <<record, candidate, stage, trail, reasons>>

freshVars == <<heap, defaults, processed, owned, mutations>>

calcVars == <<arg_original, arg_current, discount>>

spiderVars == <<response, parsed, stock, characteristics, variants_count>>

vars == <<proxyVars, pipeVars, freshVars, calcVars, spiderVars>>

\* what the actions of one component leave alone
outsideProxy == <<pipeVars, freshVars, calcVars, spiderVars>>
outsidePipe == <<proxyVars, freshVars, calcVars, spiderVars>>
outsideFresh == <<proxyVars, pipeVars, calcVars, spiderVars>>
outsideCalc == <<proxyVars, pipeVars, freshVars, spiderVars>>
outsideSpider == <<proxyVars, pipeVars, freshVars, calcVars>>

\* ------------------------------------------------------------ proxy loading
\* A line of the proxy file: a proxy address, a blank line or a comment.
Lines == [kind : {"proxy"}, text : Proxies]
         \cup {[kind |-> "blank", text |-> ""], [kind |-> "comment", text |-> "#"]}

RECURSIVE SeqsUpTo(_, _)
SeqsUpTo(S, n) ==
    IF n = 0 THEN {<<>>}
    ELSE LET shorter == SeqsUpTo(S, n - 1)
         IN shorter \cup {Append(s, x) : s \in {t \in shorter : Len(t) = n - 1}, x \in S}

RECURSIVE FilterLines(_)
FilterLines(lines) ==
    IF lines = <<>> THEN <<>>
    ELSE LET line == Head(lines)
             rest == FilterLines(Tail(lines))
         IN IF line.kind = "proxy" THEN <<line.text>> \o rest ELSE rest

\* _load_proxies: file is "missing" or a sequence of lines
load_proxies(file) ==
    IF file = <<[kind |-> "missing", text |-> ""]>> THEN <<>>
    ELSE FilterLines(file)

ProxyFiles ==
    {<<[kind |-> "missing", text |-> ""]>>}
    \cup {f \in SeqsUpTo(Lines, MaxPool + 1) : Len(FilterLines(f)) <= MaxPool}

\* ------------------------------------------------------------- acquisition
\* faulty variant: the scan gives up one element early
RECURSIVE scan_short(_, _, _, _)
scan_short(cur, attempts, prox, bl) ==
    IF attempts < Len(prox) - 1
    THEN LET proxy == prox[cur + 1]
             nxt == (cur + 1) % Len(prox)
         IN IF proxy \notin bl
            THEN [proxy |-> proxy, pool |-> nxt, advances |-> attempts + 1]
            ELSE scan_short(nxt, attempts + 1, prox, bl)
    ELSE [proxy |-> None, pool |-> cur, advances |-> attempts]

\* the while loop of _get_next_proxy: at most len(proxies) calls of next()
RECURSIVE scan(_, _, _, _)
scan(cur, attempts, prox, bl) ==
    IF attempts < Len(prox)
    THEN LET proxy == prox[cur + 1]
             nxt == (cur + 1) % Len(prox)
         IN IF proxy \notin bl
            THEN [proxy |-> proxy, pool |-> nxt, advances |-> attempts + 1]
            ELSE scan(nxt, attempts + 1, prox, bl)
    ELSE [proxy |-> None, pool |-> cur, advances |-> attempts]

\* faulty variant: the cursor restarts from the head of the list on every call
get_next_proxy_restart(pool, prox, bl) ==
    IF pool = -1
    THEN [proxy |-> None, pool |-> pool, advances |-> 0]
    ELSE scan(0, 0, prox, bl)

\* faulty variant: the blacklist is not consulted
get_next_proxy_unchecked(pool, prox, bl) ==
    IF pool = -1
    THEN [proxy |-> None, pool |-> pool, advances |-> 0]
    ELSE scan(pool, 0, prox, {})

\* ProxyMiddleware._get_next_proxy
get_next_proxy(pool, prox, bl) ==
    IF pool = -1
    THEN [proxy |-> None, pool |-> pool, advances |-> 0]
    ELSE scan(pool, 0, prox, bl)

\* ------------------------------------------------------- bookkeeping steps
\* faulty variant: total is counted even when no proxy was assigned
count_total_always(st, proxy) == [st EXCEPT !.total = @ + 1]

\* process_request: stats['total'] += 1 inside "if proxy:"
count_total(st, proxy) ==
    IF proxy # None THEN [st EXCEPT !.total = @ + 1] ELSE st

\* faulty variant: a success does not lift the blacklisting
recover_never(bl, proxy) == bl

\* process_response: recovery of a blacklisted proxy
recover(bl, proxy) ==
    IF proxy \in bl THEN bl \ {proxy} ELSE bl

\* ------------------------------------------------------------------- state
NoMeta == [proxy |-> None, proxy_current |-> None]

NoCall == [op |-> "init", req |-> 0, acquired |-> FALSE, proxy |-> None,
           advances |-> 0, before |-> {}, retry |-> FALSE, failures |-> 0]

\* ProxyMiddleware.__init__
ProxyInit ==
    /\ enabled \in BOOLEAN
    /\ \E file \in ProxyFiles :
          proxies = IF enabled THEN load_proxies(file) ELSE <<>>
    /\ proxy_pool = IF enabled /\ proxies # <<>> THEN 0 ELSE -1
    /\ blacklist = {}
    /\ stats = [total |-> 0, success |-> 0, failed |-> 0]
    /\ requests = [r \in 1..MaxInFlight |-> [st |-> "idle", meta |-> NoMeta]]
    /\ last = NoCall
    /\ lastReport = [p \in Proxies |-> "none"]
    /\ counts = [requests |-> 0, acquires |-> 0, assigned |-> 0,
                 responses |-> 0, exceptions |-> 0, cleanAcquires |-> TRUE,
                 failures |-> [r \in 1..MaxInFlight |-> 0]]

\* The engine schedules a fresh request (empty meta).
Submit(r) ==
    /\ requests[r].st = "idle"
    /\ counts.requests < MaxCalls
    /\ requests' = [requests EXCEPT ![r] = [st |-> "new", meta |-> NoMeta]]
    /\ UNCHANGED <<enabled, proxies, proxy_pool, blacklist, stats, last,
                   lastReport, counts>>
    /\ UNCHANGED outsideProxy

\* ProxyMiddleware.process_request
process_request(r) ==
    /\ requests[r].st = "new"
    /\ counts.requests < MaxCalls
    /\ IF ~enabled \/ proxies = <<>>
       THEN /\ requests' = [requests EXCEPT ![r].st = "sent"]
            /\ last' = [NoCall EXCEPT !.op = "process_request", !.req = r,
                                      !.before = blacklist]
            /\ counts' = [counts EXCEPT !.requests = @ + 1]
            /\ UNCHANGED <<proxy_pool, stats>>
       ELSE LET got == get_next_proxy(proxy_pool, proxies, blacklist)
            IN /\ proxy_pool' = got.pool
               /\ requests' = [requests EXCEPT ![r] =
                     [st |-> "sent",
                      meta |-> IF got.proxy # None
                               THEN [proxy |-> got.proxy, proxy_current |-> got.proxy]
                               ELSE @.meta]]
               /\ stats' = count_total(stats, got.proxy)
               /\ last' = [op |-> "process_request", req |-> r, acquired |-> TRUE,
                           proxy |-> got.proxy, advances |-> got.advances,
                           before |-> blacklist, retry |-> FALSE,
                           failures |-> 0]
               /\ counts' = [counts EXCEPT
                     !.requests = @ + 1,
                     !.acquires = @ + 1,
                     !.assigned = @ + (IF got.proxy # None THEN 1 ELSE 0),
                     !.cleanAcquires = @ /\ blacklist = {}]
    /\ UNCHANGED <<enabled, proxies, blacklist, lastReport>>
    /\ UNCHANGED outsideProxy

\* ProxyMiddleware.process_response
process_response(r) ==
    /\ requests[r].st = "sent"
    /\ LET proxy == requests[r].meta.proxy_current
       IN /\ IF proxy # None
             THEN /\ stats' = [stats EXCEPT !.success = @ + 1]
                  /\ blacklist' = recover(blacklist, proxy)
                  /\ lastReport' = [lastReport EXCEPT ![proxy] = "success"]
             ELSE UNCHANGED <<stats, blacklist, lastReport>>
          /\ last' = [NoCall EXCEPT !.op = "process_response", !.req = r,
                                    !.proxy = proxy, !.before = blacklist]
          /\ counts' = [counts EXCEPT
                !.responses = @ + (IF proxy # None THEN 1 ELSE 0),
                !.failures[r] = 0]
    /\ requests' = [requests EXCEPT ![r] = [st |-> "idle", meta |-> NoMeta]]
    /\ UNCHANGED <<enabled, proxies, proxy_pool>>
    /\ UNCHANGED outsideProxy

\* ProxyMiddleware.process_exception; a returned retry copy (request.copy()
\* keeps meta) is rescheduled and passes through process_request again.
process_exception(r) ==
    /\ requests[r].st = "sent"
    /\ LET proxy == requests[r].meta.proxy_current
           bl == IF proxy # None THEN blacklist \cup {proxy} ELSE blacklist
           retry == proxy # None /\ Cardinality(bl) < Len(proxies)
       IN /\ blacklist' = bl
          /\ stats' = IF proxy # None
                      THEN [stats EXCEPT !.failed = @ + 1]
                      ELSE stats
          /\ lastReport' = IF proxy # None
                           THEN [lastReport EXCEPT ![proxy] = "failure"]
                           ELSE lastReport
          /\ requests' = [requests EXCEPT ![r] =
                IF retry THEN [st |-> "new", meta |-> @.meta]
                         ELSE [st |-> "idle", meta |-> NoMeta]]
          /\ last' = [NoCall EXCEPT !.op = "process_exception", !.req = r,
                                    !.proxy = proxy, !.before = blacklist,
                                    !.retry = retry,
                                    !.failures = counts.failures[r] + 1]
          /\ counts' = [counts EXCEPT
                !.exceptions = @ + (IF proxy # None THEN 1 ELSE 0),
                !.failures[r] = IF retry THEN @ + 1 ELSE 0]
    /\ UNCHANGED <<enabled, proxies, proxy_pool>>
    /\ UNCHANGED outsideProxy

\* ProxyMiddleware.get_stats
get_stats ==
    [total_requests |-> stats.total,
     successful |-> stats.success,
     failed |-> stats.failed,
     blacklisted_proxies |-> Cardinality(blacklist),
     available_proxies |-> Len(proxies) - Cardinality(blacklist)]

ProxyNext ==
    \/ \E r \in 1..MaxInFlight : Submit(r)
    \/ \E r \in 1..MaxInFlight : process_request(r)
    \/ \E r \in 1..MaxInFlight : process_response(r)
    \/ \E r \in 1..MaxInFlight : process_exception(r)


\* ================================================================ pipelines
\* ------------------------------------------------------------------ values
\* A Python value: t is its type tag; n the number, in halves (3 is 1.5), or
\* the truth value of a bool; s the text of a str, as a sequence of
\* characters; l the elements of a list (each one a str).
Val(t, n, s, l) == [t |-> t, n |-> n, s |-> s, l |-> l]
Absent == Val("absent", 0, <<>>, <<>>)      \* key not in the mapping
NoneV == Val("none", 0, <<>>, <<>>)
Num(n) == Val("num", n, <<>>, <<>>)
Whole(k) == Num(2 * k)
Str(s) == Val("str", 0, s, <<>>)
Bool(b) == Val("bool", IF b THEN 1 ELSE 0, <<>>, <<>>)
List(l) == Val("list", 0, <<>>, l)

\* adapter.get(field): a missing key reads as None
Get(v) == IF v.t = "absent" THEN NoneV ELSE v

IsNone(v) == v.t \in {"absent", "none"}

\* Python truth value of a scalar or list
Truthy(v) ==
    CASE v.t = "num" -> v.n # 0
      [] v.t = "bool" -> v.n = 1
      [] v.t = "str" -> v.s # <<>>
      [] v.t = "list" -> v.l # <<>>
      [] OTHER -> FALSE

\* float(v) / int(v) succeed on numbers only; the modelled strings hold no
\* numeric text (ValueError) and None or a list gives TypeError
Converts(v) == v.t \in {"num", "bool"}

\* float(v), in halves, of a value that converts
Float(v) == IF v.t = "bool" THEN 2 * v.n ELSE v.n

\* int(x): truncation toward zero, from halves to a whole number
int(n) == IF n >= 0 THEN n \div 2 ELSE -((-n) \div 2)

\* ------------------------------------------------------- nested structures
PriceData(t, current, original, sale_tag, currency) ==
    [t |-> t, current |-> current, original |-> original,
     sale_tag |-> sale_tag, currency |-> currency]
StockData(t, in_stock, count, status, available_regions) ==
    [t |-> t, in_stock |-> in_stock, count |-> count, status |-> status,
     available_regions |-> available_regions]
Assets(t, main_image, gallery_images, view_360, video, cached_images) ==
    [t |-> t, main_image |-> main_image, gallery_images |-> gallery_images,
     view_360 |-> view_360, video |-> video, cached_images |-> cached_images]
Attributes(t, k1, k2) == [t |-> t, k1 |-> k1, k2 |-> k2]

NoPriceData == PriceData("absent", Absent, Absent, Absent, Absent)
NoStockData == StockData("absent", Absent, Absent, Absent, Absent)
NoAssets == Assets("absent", Absent, Absent, Absent, Absent, Absent)
NoAttributes == Attributes("absent", Absent, Absent)

\* truth value of a nested mapping: a dict with at least one key
TruthyPriceData(d) ==
    d.t = "dict" /\ \E k \in {"current", "original", "sale_tag", "currency"} :
                        d[k].t # "absent"
TruthyStockData(d) ==
    d.t = "dict" /\ \E k \in {"in_stock", "count", "status", "available_regions"} :
                        d[k].t # "absent"
TruthyAssets(d) ==
    d.t = "dict" /\ \E k \in {"main_image", "gallery_images", "view_360",
                              "video", "cached_images"} : d[k].t # "absent"
TruthyAttributes(d) ==
    d.t = "dict" /\ \E k \in {"k1", "k2"} : d[k].t # "absent"

\* -------------------------------------------------------------- the record
BlankItem ==
    [product_id |-> Absent, name |-> Absent, product_url |-> Absent,
     scraped_at |-> Absent, brand |-> Absent, description |-> Absent,
     tasting_notes |-> Absent, food_pairing |-> Absent, category |-> Absent,
     price_data |-> NoPriceData, stock_data |-> NoStockData,
     assets |-> NoAssets, attributes |-> NoAttributes,
     price |-> Absent, original_price |-> Absent, rating |-> Absent,
     discount_percentage |-> Absent, marketing_tags |-> Absent,
     image_urls |-> Absent, tags |-> Absent, validation_errors |-> Absent,
     scraper_notes |-> Absent, is_valid |-> Absent, review_count |-> Absent,
     stock_quantity |-> Absent, currency |-> Absent, region |-> Absent,
     source |-> Absent]

\* ValidationPipeline.required_fields, in dict order
required_fields == <<"product_id", "name", "product_url", "scraped_at">>

\* faulty variant: only absence is tested, not emptiness
missing_absent_only(item, field) == item[field].t = "absent"

\* "field not in adapter or not adapter.get(field)"
missing(item, field) ==
    item[field].t = "absent" \/ ~Truthy(Get(item[field]))

\* faulty variant: the loop stops at the first missing field
RECURSIVE collect_errors_first(_, _)
collect_errors_first(item, fields) ==
    IF fields = <<>> THEN <<>>
    ELSE IF missing(item, Head(fields)) THEN <<Head(fields)>>
    ELSE collect_errors_first(item, Tail(fields))

\* the loop over required_fields appends one error per missing field
RECURSIVE collect_errors(_, _)
collect_errors(item, fields) ==
    IF fields = <<>> THEN <<>>
    ELSE (IF missing(item, Head(fields)) THEN <<Head(fields)>> ELSE <<>>)
         \o collect_errors(item, Tail(fields))

\* "current is not None and original is not None" and then
\* "current and original and float(current) > float(original)"
price_data_needs_fix(current, original) ==
    /\ ~IsNone(current)
    /\ ~IsNone(original)
    /\ Truthy(current)
    /\ Truthy(original)
    /\ Float(current) > Float(original)

\* the nested comparison raises when a truthy operand is not a number
price_data_raises(current, original) ==
    /\ ~IsNone(current)
    /\ ~IsNone(original)
    /\ Truthy(current)
    /\ Truthy(original)
    /\ ~(Converts(current) /\ Converts(original))

validate_price_data(d) ==
    IF TruthyPriceData(d)
       /\ price_data_needs_fix(Get(d.current), Get(d.original))
    THEN [d EXCEPT !.current = d.original]
    ELSE d

\* faulty variant: a negative count is left as it is
validate_stock_data_unchecked(d) == d

\* stock_data: a negative int or float count is replaced by 0
validate_stock_data(d) ==
    IF TruthyStockData(d) /\ Get(d.count).t \in {"num", "bool"}
       /\ Float(Get(d.count)) < 0
    THEN [d EXCEPT !.count = Whole(0)]
    ELSE d

\* faulty variant: the top-level clamp is skipped
validate_price_noclamp(price, original_price) == price

\* "if price > original: adapter['price'] = original" on the two floats
validate_price(price, original_price) ==
    IF ~IsNone(price) /\ ~IsNone(original_price)
       /\ Float(price) > Float(original_price)
    THEN Num(Float(original_price))
    ELSE price

\* ValidationPipeline.process_item: outcome "drop" is DropItem, "raise" any
\* other exception, "ok" the returned item
ValidationPipeline_process_item(item) ==
    LET errors == collect_errors(item, required_fields)
    IN IF errors # <<>>
       THEN [outcome |-> "drop", item |-> item, errors |-> errors]
       ELSE IF \/ (TruthyPriceData(item.price_data)
                   /\ price_data_raises(Get(item.price_data.current),
                                        Get(item.price_data.original)))
               \/ (~IsNone(item.price) /\ ~IsNone(item.original_price)
                   /\ ~(Converts(item.price) /\ Converts(item.original_price)))
       THEN [outcome |-> "raise", item |-> item, errors |-> <<>>]
       ELSE [outcome |-> "ok",
             item |-> [item EXCEPT
                 !.price_data = validate_price_data(@),
                 !.stock_data = validate_stock_data(@),
                 !.price = validate_price(@, item.original_price)],
             errors |-> <<>>]

\* ----------------------------------------------------------------- strings
Whitespace == {" ", "\n", "\r", "\t"}

\* code points of the characters used, for sorted()
ord(c) ==
    CASE c = "\t" -> 9
      [] c = "\n" -> 10
      [] c = "\r" -> 13
      [] c = " " -> 32
      [] c = "A" -> 65
      [] c = "B" -> 66
      [] c = "a" -> 97
      [] c = "b" -> 98
      [] OTHER -> 1000

RECURSIVE lstrip(_)
lstrip(s) ==
    IF s # <<>> /\ Head(s) \in Whitespace THEN lstrip(Tail(s)) ELSE s

RECURSIVE rstrip(_)
rstrip(s) ==
    IF s # <<>> /\ s[Len(s)] \in Whitespace
    THEN rstrip(SubSeq(s, 1, Len(s) - 1))
    ELSE s

\* str.strip()
strip(s) == rstrip(lstrip(s))

\* the first word of a string that starts with a non-whitespace character
RECURSIVE word(_)
word(s) ==
    IF s = <<>> \/ Head(s) \in Whitespace THEN <<>>
    ELSE <<Head(s)>> \o word(Tail(s))

\* str.split(): the words between runs of whitespace
RECURSIVE split(_)
split(s) ==
    LET t == lstrip(s)
    IN IF t = <<>> THEN <<>>
       ELSE LET w == word(t)
            IN <<w>> \o split(SubSeq(t, Len(w) + 1, Len(t)))

\* ' '.join(words)
RECURSIVE join(_)
join(words) ==
    IF words = <<>> THEN <<>>
    ELSE IF Len(words) = 1 THEN Head(words)
    ELSE Head(words) \o <<" ">> \o join(Tail(words))

\* ' '.join(s.split())
collapse(s) == join(split(s))

\* desc.replace('\r', '').replace('\n', ' ')
RECURSIVE replace_breaks(_)
replace_breaks(s) ==
    IF s = <<>> THEN <<>>
    ELSE (CASE Head(s) = "\r" -> <<>>
            [] Head(s) = "\n" -> <<" ">>
            [] OTHER -> <<Head(s)>>)
         \o replace_breaks(Tail(s))

\* lexicographic order of two strings by code point
RECURSIVE less(_, _)
less(a, b) ==
    IF b = <<>> THEN FALSE
    ELSE IF a = <<>> THEN TRUE
    ELSE IF ord(Head(a)) # ord(Head(b)) THEN ord(Head(a)) < ord(Head(b))
    ELSE less(Tail(a), Tail(b))

\* sorted() of a collection of distinct strings
RECURSIVE sorted(_)
sorted(S) ==
    IF S = {} THEN <<>>
    ELSE LET m == CHOOSE x \in S : \A y \in S \ {x} : less(x, y)
         IN <<m>> \o sorted(S \ {m})

\* list(dict.fromkeys(l)): distinct elements in first-occurrence order
RECURSIVE fromkeys(_)
fromkeys(l) ==
    IF l = <<>> THEN <<>>
    ELSE LET init == fromkeys(SubSeq(l, 1, Len(l) - 1))
             x == l[Len(l)]
         IN IF \E i \in 1..Len(init) : init[i] = x THEN init ELSE Append(init, x)

\* the stripped truthy string entries of a tag list, as a set
stripped_tags(l) == {strip(l[i]) : i \in {j \in 1..Len(l) : l[j] # <<>>}}

\* --------------------------------------------------- DefaultValuesPipeline
RUB == <<"RUB">>

\* faulty variant: every falsy value is replaced by the default
default_falsy(v, dflt) == IF ~Truthy(Get(v)) THEN dflt ELSE v

\* "if field not in adapter or adapter.get(field) is None"
default(v, dflt) == IF IsNone(v) THEN dflt ELSE v

default_price_data(d) ==
    IF TruthyPriceData(d)
    THEN [d EXCEPT
            !.currency = IF @.t = "absent" \/ ~Truthy(Get(@)) THEN Str(RUB) ELSE @,
            !.sale_tag = IF @.t = "absent" THEN NoneV ELSE @]
    ELSE d

default_assets(d) ==
    IF TruthyAssets(d)
    THEN [d EXCEPT
            !.main_image = default(@, NoneV),
            !.gallery_images = default(@, List(<<>>)),
            !.view_360 = default(@, List(<<>>)),
            !.video = default(@, List(<<>>)),
            !.cached_images = default(@, List(<<>>))]
    ELSE d

default_stock_data(d) ==
    IF TruthyStockData(d)
    THEN [d EXCEPT
            !.in_stock = default(@, Bool(FALSE)),
            !.count = default(@, Whole(0)),
            !.status = default(@, Str(<<"unknown">>)),
            !.available_regions = default(@, List(<<>>))]
    ELSE d

\* DefaultValuesPipeline.process_item; now is int(time.time())
DefaultValuesPipeline_process_item(item, now) ==
    [item EXCEPT
        !.marketing_tags = default(@, List(<<>>)),
        !.attributes = IF @.t \in {"absent", "none"}
                       THEN [@ EXCEPT !.t = "dict"] ELSE @,
        !.image_urls = default(@, List(<<>>)),
        !.tags = default(@, List(<<>>)),
        !.validation_errors = default(@, List(<<>>)),
        !.scraper_notes = default(@, Str(<<>>)),
        !.is_valid = default(@, Bool(TRUE)),
        !.review_count = default(@, Whole(0)),
        !.stock_quantity = default(@, Whole(0)),
        !.currency = default(@, Str(RUB)),
        !.region = default(@, Str(<<"krasnodar">>)),
        !.source = default(@, Str(<<"alkoteka.com">>)),
        !.scraped_at = default(@, now),
        !.price_data = default_price_data(@),
        !.assets = default_assets(@),
        !.stock_data = default_stock_data(@)]

\* ---------------------------------------------------- DataCleaningPipeline
\* string_fields: ' '.join(value.split()) on str values
clean_string(v) == IF v.t = "str" THEN Str(collapse(v.s)) ELSE v

\* marketing_tags: sorted(list(set(tag.strip() for truthy str tags)))
clean_marketing_tags(v) ==
    IF Truthy(Get(v)) /\ v.t = "list" THEN List(sorted(stripped_tags(v.l))) ELSE v

\* faulty variant: the distinct tags are left in first-occurrence order
clean_tags_unsorted(v) ==
    IF Truthy(Get(v)) /\ v.t = "list"
    THEN List(fromkeys([i \in 1..Len(SelectSeq(v.l, LAMBDA x : x # <<>>)) |->
                          strip(SelectSeq(v.l, LAMBDA x : x # <<>>)[i])]))
    ELSE v

\* tags: sorted(list(dict.fromkeys(tag.strip() for truthy str tags)))
clean_tags(v) ==
    IF Truthy(Get(v)) /\ v.t = "list" THEN List(sorted(stripped_tags(v.l))) ELSE v

\* faulty variant: the distinct URLs are sorted
clean_urls_sorted(v) ==
    IF Truthy(Get(v)) /\ v.t = "list"
    THEN List(sorted({v.l[i] : i \in 1..Len(v.l)}))
    ELSE v

\* URL lists: list(dict.fromkeys(urls))
clean_urls(v) ==
    IF Truthy(Get(v)) /\ v.t = "list" THEN List(fromkeys(v.l)) ELSE v

\* asset lists are deduplicated whenever the key holds a list
clean_asset_list(v) == IF v.t = "list" THEN List(fromkeys(v.l)) ELSE v

clean_assets(d) ==
    IF TruthyAssets(d)
    THEN [d EXCEPT
            !.gallery_images = clean_asset_list(@),
            !.view_360 = clean_asset_list(@),
            !.video = clean_asset_list(@),
            !.cached_images = clean_asset_list(@)]
    ELSE d

\* one entry of attributes: None is dropped, a str is collapsed, a list
\* loses its falsy entries
clean_attribute(v) ==
    CASE v.t \in {"absent", "none"} -> Absent
      [] v.t = "str" -> Str(collapse(v.s))
      [] v.t = "list" -> List(SelectSeq(v.l, LAMBDA x : x # <<>>))
      [] OTHER -> v

clean_attributes(d) ==
    IF TruthyAttributes(d)
    THEN [d EXCEPT !.k1 = clean_attribute(@), !.k2 = clean_attribute(@)]
    ELSE d

\* description: line breaks removed, then whitespace collapsed
clean_description(v) ==
    IF Truthy(Get(v)) /\ v.t = "str"
    THEN Str(collapse(replace_breaks(v.s)))
    ELSE v

\* price and original_price: negative set to 0, unconvertible set to None
clean_price(v) ==
    IF IsNone(v) THEN v
    ELSE IF ~Converts(v) THEN NoneV
    ELSE IF Float(v) < 0 THEN Whole(0)
    ELSE v

\* faulty variant: an out-of-range rating is clamped to the nearest bound
clean_rating_clamped(v) ==
    IF IsNone(v) THEN v
    ELSE IF ~Converts(v) THEN NoneV
    ELSE IF Float(v) < 0 THEN Whole(0)
    ELSE IF Float(v) > 2 * 5 THEN Whole(5)
    ELSE v

\* rating: outside [0, 5] set to None
clean_rating(v) ==
    IF IsNone(v) THEN v
    ELSE IF ~Converts(v) THEN NoneV
    ELSE IF Float(v) < 0 \/ Float(v) > 2 * 5 THEN NoneV
    ELSE v

\* discount_percentage: int(value) outside [0, 100] sets the field to 0
clean_discount(v) ==
    IF IsNone(v) THEN v
    ELSE IF ~Converts(v) THEN NoneV
    ELSE IF int(Float(v)) < 0 \/ int(Float(v)) > 100 THEN Whole(0)
    ELSE v

\* DataCleaningPipeline.process_item
DataCleaningPipeline_process_item(item) ==
    [item EXCEPT
        !.name = clean_string(@),
        !.brand = clean_string(@),
        !.description = clean_description(clean_string(@)),
        !.tasting_notes = clean_string(@),
        !.food_pairing = clean_string(@),
        !.category = clean_string(@),
        !.marketing_tags = clean_marketing_tags(@),
        !.attributes = clean_attributes(@),
        !.image_urls = clean_urls(@),
        !.tags = clean_tags(@),
        !.assets = clean_assets(@),
        !.price = clean_price(@),
        !.original_price = clean_price(@),
        !.rating = clean_rating(@),
        !.discount_percentage = clean_discount(@)]

\* ------------------------------------------------------- the pipeline chain
\* faulty variant: Cleaning is given a priority below Defaulting
ITEM_PIPELINES_reordered ==
    [ValidationPipeline |-> 300, DefaultValuesPipeline |-> 400,
     DataCleaningPipeline |-> 350]

\* settings.ITEM_PIPELINES
ITEM_PIPELINES ==
    [ValidationPipeline |-> 300, DefaultValuesPipeline |-> 400,
     DataCleaningPipeline |-> 500]

Ran(tr) == {tr[i] : i \in 1..Len(tr)}

\* Scrapy runs the enabled pipelines in ascending order of their value
next_pipeline(tr) ==
    LET left == DOMAIN ITEM_PIPELINES \ Ran(tr)
    IN IF left = {} THEN None
       ELSE CHOOSE q \in left :
                \A o \in left : ITEM_PIPELINES[q] <= ITEM_PIPELINES[o]

Live == stage \in {"Extracted", "Validated", "Defaulted", "Cleaned"}

\* candidate records
GoodItem ==
    [BlankItem EXCEPT
        !.product_id = Str(<<"1">>),
        !.name = Str(<<" ", "A", " ", " ", "B">>),
        !.product_url = Str(<<"u">>),
        !.scraped_at = Whole(1)]

RequiredCandidates ==
    {[BlankItem EXCEPT !.product_id = a, !.name = b, !.product_url = c,
                       !.scraped_at = d, !.price = e] :
        a \in {Absent, NoneV, Str(<<>>), Str(<<"1">>)},
        b \in {Absent, Str(<<>>), Str(<<" ">>), Str(<<" ", "A", " ", " ", "B">>)},
        c \in {Absent, Str(<<>>), Str(<<"u">>)},
        d \in {Absent, NoneV, Whole(1)},
        e \in {Absent, Whole(1)}}

PriceValues ==
    {Absent, NoneV, Str(<<"a">>)} \cup {Num(n) : n \in -MaxPrice..MaxPrice}

NestedValues == {Absent, NoneV} \cup {Num(n) : n \in -MaxNested..MaxNested}

PriceDataValues ==
    {NoPriceData, [NoPriceData EXCEPT !.t = "none"]}
    \cup {PriceData("dict", c, o, Absent, Absent) :
             c \in NestedValues, o \in NestedValues}
    \cup {PriceData("dict", Whole(1), Whole(1), g, c) :
             g \in {Absent, NoneV, Str(<<"s">>)},
             c \in {Absent, NoneV, Str(<<>>), Str(<<"U">>)}}

DiscountValues ==
    {Absent, NoneV, Str(<<"a">>)}
    \cup {Num(n) : n \in -MaxOver..MaxOver}
    \cup {Num(200 + n) : n \in -MaxOver..MaxOver}

PriceCandidates ==
    {[GoodItem EXCEPT !.price = a, !.original_price = b, !.price_data = c] :
        a \in PriceValues, b \in PriceValues, c \in PriceDataValues}

DiscountCandidates ==
    {[GoodItem EXCEPT !.discount_percentage = a, !.price = b] :
        a \in DiscountValues, b \in PriceValues}

RatingValues ==
    {Absent, NoneV, Str(<<"a">>), Bool(TRUE)}
    \cup {Num(n) : n \in -MaxOver..MaxOver}
    \cup {Num(2 * 5 + n) : n \in -MaxOver..MaxOver}

RatingCandidates == {[GoodItem EXCEPT !.rating = a] : a \in RatingValues}

CountValues ==
    {Absent, NoneV, Str(<<"a">>), Bool(TRUE)}
    \cup {Num(n) : n \in -MaxStock..MaxStock}

StockDataValues ==
    {NoStockData, [NoStockData EXCEPT !.t = "none"], [NoStockData EXCEPT !.t = "dict"]}
    \cup {StockData("dict", a, c, Absent, Absent) :
             a \in {Absent, Bool(TRUE)}, c \in CountValues}

StockCandidates == {[GoodItem EXCEPT !.stock_data = a] : a \in StockDataValues}

TagStrings == {<<"a">>, <<"b">>, <<"A">>, <<" ", "a">>, <<" ">>, <<>>}

TagLists == {Absent, NoneV} \cup {List(l) : l \in SeqsUpTo(TagStrings, MaxList)}

TagCandidates ==
    {[GoodItem EXCEPT !.tags = a] : a \in TagLists}
    \cup {[GoodItem EXCEPT !.marketing_tags = a] : a \in TagLists}

UrlStrings == {<<"a">>, <<"b">>, <<"A">>}

UrlLists == {List(l) : l \in SeqsUpTo(UrlStrings, MaxList)}

AssetsValues ==
    {NoAssets, [NoAssets EXCEPT !.t = "none"], [NoAssets EXCEPT !.t = "dict"],
     [NoAssets EXCEPT !.t = "dict", !.main_image = Str(<<"a">>)]}
    \cup {[NoAssets EXCEPT !.t = "dict", ![k] = l] :
             k \in {"gallery_images", "view_360", "video", "cached_images"},
             l \in UrlLists \cup {NoneV}}

UrlCandidates ==
    {[GoodItem EXCEPT !.image_urls = a] : a \in UrlLists \cup {Absent, NoneV}}
    \cup {[GoodItem EXCEPT !.assets = a] : a \in AssetsValues}

TextValues ==
    {Absent, NoneV, Str(<<>>), Str(<<"a", "\r", "\n", "b">>),
     Str(<<"\t", "a", " ", "b">>)}

AttributesValues ==
    {NoAttributes, [NoAttributes EXCEPT !.t = "dict"]}
    \cup {Attributes("dict", a, b) :
             a \in {Absent, NoneV, Str(<<" ", "a", " ", " ", "b">>)},
             b \in {Absent, List(<<<<>>, <<"a">>>>), Whole(1)}}

TextCandidates ==
    {[GoodItem EXCEPT !.description = a, !.brand = b, !.attributes = c] :
        a \in TextValues, b \in TextValues, c \in AttributesValues}

\* records whose defaulted fields already hold a value, falsy or not
FalsyCandidates ==
    {[GoodItem EXCEPT !.is_valid = a, !.currency = b, !.marketing_tags = c,
                      !.review_count = d] :
        a \in {Absent, NoneV, Bool(FALSE)},
        b \in {Absent, NoneV, Str(<<>>), Str(<<"U">>)},
        c \in {Absent, NoneV, List(<<>>), List(<<<<"a">>>>)},
        d \in {Absent, Whole(0), Whole(1)}}

Candidates ==
    FalsyCandidates \cup RequiredCandidates \cup PriceCandidates \cup DiscountCandidates
    \cup RatingCandidates \cup StockCandidates \cup TagCandidates
    \cup UrlCandidates \cup TextCandidates

Clock == {Whole(1), Whole(2)}

PipeInit ==
    /\ record = BlankItem
    /\ candidate = BlankItem
    /\ stage = "Idle"
    /\ trail = <<>>
    /\ reasons = <<>>

\* the spider yields a candidate record
Extract ==
    /\ stage = "Idle"
    /\ \E c \in Candidates :
          /\ record' = c
          /\ candidate' = c
    /\ stage' = "Extracted"
    /\ UNCHANGED <<trail, reasons>>
    /\ UNCHANGED outsidePipe

RunValidation ==
    /\ Live
    /\ next_pipeline(trail) = "ValidationPipeline"
    /\ LET res == ValidationPipeline_process_item(record)
       IN /\ record' = res.item
          /\ reasons' = res.errors
          /\ stage' = CASE res.outcome = "drop" -> "Rejected"
                        [] res.outcome = "raise" -> "Errored"
                        [] OTHER -> "Validated"
    /\ trail' = Append(trail, "ValidationPipeline")
    /\ UNCHANGED candidate
    /\ UNCHANGED outsidePipe

RunDefaults ==
    /\ Live
    /\ next_pipeline(trail) = "DefaultValuesPipeline"
    /\ \E now \in Clock : record' = DefaultValuesPipeline_process_item(record, now)
    /\ stage' = "Defaulted"
    /\ trail' = Append(trail, "DefaultValuesPipeline")
    /\ UNCHANGED <<candidate, reasons>>
    /\ UNCHANGED outsidePipe

RunCleaning ==
    /\ Live
    /\ next_pipeline(trail) = "DataCleaningPipeline"
    /\ record' = DataCleaningPipeline_process_item(record)
    /\ stage' = "Cleaned"
    /\ trail' = Append(trail, "DataCleaningPipeline")
    /\ UNCHANGED <<candidate, reasons>>
    /\ UNCHANGED outsidePipe

PipeNext ==
    \/ Extract
    \/ RunValidation
    \/ RunDefaults
    \/ RunCleaning

ProxyIdle ==
    /\ enabled = FALSE
    /\ proxies = <<>>
    /\ proxy_pool = -1
    /\ blacklist = {}
    /\ stats = [total |-> 0, success |-> 0, failed |-> 0]
    /\ requests = [r \in 1..MaxInFlight |-> [st |-> "idle", meta |-> NoMeta]]
    /\ last = NoCall
    /\ lastReport = [p \in Proxies |-> "none"]
    /\ counts = [requests |-> 0, acquires |-> 0, assigned |-> 0,
                 responses |-> 0, exceptions |-> 0, cleanAcquires |-> TRUE,
                 failures |-> [r \in 1..MaxInFlight |-> 0]]

\* ------------------------------------------- defaults and object identity
\* the entries of DefaultValuesPipeline.defaults that are a list or a dict,
\* in dict order
collection_defaults ==
    <<"marketing_tags", "attributes", "image_urls", "tags", "validation_errors">>

CollectionFields == {collection_defaults[i] : i \in 1..Len(collection_defaults)}

\* a new list or dict object with the given contents
alloc(h, elems) == [heap |-> Append(h, elems), ref |-> Len(h) + 1]

\* faulty variant: the default object itself is handed out
copy_aliased(h, ref) == [heap |-> h, ref |-> ref]

\* default_value.copy(): a new object with the contents of the default
copy(h, ref) == alloc(h, h[ref])

\* the loop over self.defaults: a field that is absent or None (0) gets a
\* copy of its default
RECURSIVE fill(_, _, _, _)
fill(h, dflts, it, fields) ==
    IF fields = <<>> THEN [heap |-> h, item |-> it]
    ELSE LET f == Head(fields)
         IN IF it[f] = 0
            THEN LET c == copy(h, dflts[f])
                 IN fill(c.heap, dflts, [it EXCEPT ![f] = c.ref], Tail(fields))
            ELSE fill(h, dflts, it, Tail(fields))

\* the item the spider yields: the fields in preset hold lists of their own
RECURSIVE spider_item(_, _, _)
spider_item(h, it, fields) ==
    IF fields = <<>> THEN [heap |-> h, item |-> it]
    ELSE LET f == Head(fields)
         IN IF it[f] = 1
            THEN LET c == alloc(h, <<"s">>)
                 IN spider_item(c.heap, [it EXCEPT ![f] = c.ref], Tail(fields))
            ELSE spider_item(h, it, Tail(fields))

\* which collection fields the spider has set: none or one of them
Presets ==
    {[f \in CollectionFields |-> 0]}
    \cup {[f \in CollectionFields |-> IF f = g THEN 1 ELSE 0] : g \in CollectionFields}

\* DefaultValuesPipeline.__init__: one empty container per collection default
FreshInit ==
    /\ heap = [i \in 1..Len(collection_defaults) |-> <<>>]
    /\ defaults = [f \in CollectionFields |->
                      CHOOSE i \in 1..Len(collection_defaults) : collection_defaults[i] = f]
    /\ processed = <<>>
    /\ owned = <<>>
    /\ mutations = 0

\* DefaultValuesPipeline.process_item on the next record
DefaultsProcess ==
    /\ Len(processed) < MaxRecords
    /\ \E preset \in Presets :
          LET raw == spider_item(heap, preset, collection_defaults)
              done == fill(raw.heap, defaults, raw.item, collection_defaults)
          IN /\ heap' = done.heap
             /\ processed' = Append(processed, done.item)
             /\ owned' = Append(owned, [f \in CollectionFields |->
                                           done.heap[done.item[f]]])
    /\ UNCHANGED <<defaults, mutations>>
    /\ UNCHANGED outsideFresh

\* later code changes one container of one record in place (append, or a
\* new key for the dict)
Mutate ==
    /\ mutations < MaxMutations
    /\ \E i \in 1..Len(processed) : \E f \in CollectionFields :
          /\ heap' = [heap EXCEPT ![processed[i][f]] = Append(@, "x")]
          /\ owned' = [owned EXCEPT ![i][f] = Append(@, "x")]
    /\ mutations' = mutations + 1
    /\ UNCHANGED <<defaults, processed>>
    /\ UNCHANGED outsideFresh

FreshNext ==
    \/ DefaultsProcess
    \/ Mutate

\* ------------------------------------------------------ calculate_discount
\* Python floats are IEEE 754 binary64: a positive float is m * 2^e with m
\* a significand of Precision bits.  m is kept as its leading bit followed
\* by Limbs digits of LimbBits bits each, most significant first.
Precision == 53
LimbBits == 13
Limbs == (Precision - 1) \div LimbBits
Base == 2^LimbBits

\* m + 1; the leading digit becomes 2 when every digit was full
RECURSIVE increment(_)
increment(m) ==
    IF Len(m) = 1 \/ m[Len(m)] + 1 < Base
    THEN [m EXCEPT ![Len(m)] = @ + 1]
    ELSE increment(SubSeq(m, 1, Len(m) - 1)) \o <<0>>

\* round to nearest, ties to even: m * 2^e plus a remainder that is above,
\* equal to (tie) or below half a unit of the last bit
round(m, e, above, tie) ==
    LET r == IF above \/ (tie /\ m[Len(m)] % 2 = 1) THEN increment(m) ELSE m
    IN IF r[1] = 2
       THEN [m |-> [r EXCEPT ![1] = 1], e |-> e + 1]
       ELSE [m |-> r, e |-> e]

\* n / d = (n' / d') * 2^(-k) with 1 <= n' / d' < 2
RECURSIVE normalise(_, _, _)
normalise(n, d, k) ==
    IF n < d THEN normalise(2 * n, d, k + 1)
    ELSE IF n >= 2 * d THEN normalise(n, 2 * d, k - 1)
    ELSE [n |-> n, d |-> d, k |-> k]

\* the next count digits of the quotient by long division, and the
\* remainder
RECURSIVE quotient_limbs(_, _, _)
quotient_limbs(rem, d, count) ==
    IF count = 0 THEN [limbs |-> <<>>, rem |-> rem]
    ELSE LET digit == (rem * Base) \div d
             rest == quotient_limbs(rem * Base - digit * d, d, count - 1)
         IN [limbs |-> <<digit>> \o rest.limbs, rem |-> rest.rem]

\* the float n / d of two positive numbers given in the same unit
fl_div(n, d) ==
    LET s == normalise(n, d, 0)
        q == quotient_limbs(s.n - s.d, s.d, Limbs)
    IN round(<<1>> \o q.limbs, (-s.k) - (Precision - 1),
             2 * q.rem > s.d, 2 * q.rem = s.d)

\* the digits of m * c + carry for a small natural number c; the leading
\* digit of the result is not reduced
RECURSIVE times(_, _, _)
times(m, c, carry) ==
    IF Len(m) = 1 THEN <<m[1] * c + carry>>
    ELSE LET v == m[Len(m)] * c + carry
         IN IF v % Base = 0
            THEN times(SubSeq(m, 1, Len(m) - 1), c, v \div Base) \o <<0>>
            ELSE times(SubSeq(m, 1, Len(m) - 1), c, v \div Base) \o <<v % Base>>

\* number of bits of a natural number
RECURSIVE bit_length(_)
bit_length(n) == IF n = 0 THEN 0 ELSE 1 + bit_length(n \div 2)

\* the digits of p shifted right by k < LimbBits bits
shift(p, k) ==
    [i \in 1..Len(p) |->
        (IF i = 1 THEN 0 ELSE (p[i - 1] % 2^k) * 2^(LimbBits - k))
        + p[i] \div 2^k]

\* the float x * c of a positive float and a whole number 0 < c < Base
fl_mul(x, c) ==
    LET p == times(x.m, c, 0)
        extra == bit_length(p[1]) - 1
        dropped == p[Len(p)] % 2^extra
    IN round(shift(p, extra), x.e + extra,
             2 * dropped > 2^extra, extra > 0 /\ 2 * dropped = 2^extra)

\* int(min(cap, x)) of a positive float x, for a whole number cap < 2^8
int_min(cap, x) ==
    LET whole == Precision + x.e      \* bits in front of the binary point
    IN IF whole <= 0 THEN 0
       ELSE IF whole > 8 THEN cap
       ELSE LET v == (x.m[1] * Base + x.m[2]) \div 2^(LimbBits + 1 - whole)
            IN IF v < cap THEN v ELSE cap

\* items.calculate_discount; original - current is exact on the modelled
\* operands, the division and the multiplication round
calculate_discount(original, current) ==
    IF ~Truthy(original) \/ ~Truthy(current) \/ Float(original) <= 0
    THEN NoneV
    ELSE LET n == Float(original) - Float(current)
         IN IF n <= 0
            THEN Whole(0)                \* max(0, discount) with discount <= 0
            ELSE Whole(int_min(100, fl_mul(fl_div(n, Float(original)), 100)))

Operands == {NoneV} \cup {Num(n) : n \in -MaxOperand..MaxOperand}

NotCalled ==
    /\ arg_original = NoneV
    /\ arg_current = NoneV
    /\ discount = Absent

CalcInit ==
    /\ arg_original \in Operands
    /\ arg_current \in Operands
    /\ discount = Absent

\* the call calculate_discount(original, current)
Calculate ==
    /\ discount = Absent
    /\ discount' = calculate_discount(arg_original, arg_current)
    /\ UNCHANGED <<arg_original, arg_current>>
    /\ UNCHANGED outsideCalc

CalcNext == Calculate

\* =================================================================== spider
\* ------------------------------------------------------------ text helpers
\* A character outside ASCII is written as its code point: "U+0432" is the
\* Cyrillic small letter ve.
UpperCase == <<"A", "B", "C", "D", "E", "F", "G", "H", "I", "J", "K", "L", "M", "N",
             "O", "P", "Q", "R", "S", "T", "U", "V", "W", "X", "Y", "Z", "U+0410",
             "U+0411", "U+0412", "U+0413", "U+0414", "U+0415", "U+0416", "U+0417",
             "U+0418", "U+0419", "U+041A", "U+041B", "U+041C", "U+041D", "U+041E",
             "U+041F", "U+0420", "U+0421", "U+0422", "U+0423", "U+0424", "U+0425",
             "U+0426", "U+0427", "U+0428", "U+0429", "U+042A", "U+042B", "U+042C",
             "U+042D", "U+042E", "U+042F">>

LowerCase == <<"a", "b", "c", "d", "e", "f", "g", "h", "i", "j", "k", "l", "m", "n",
             "o", "p", "q", "r", "s", "t", "u", "v", "w", "x", "y", "z", "U+0430",
             "U+0431", "U+0432", "U+0433", "U+0434", "U+0435", "U+0436", "U+0437",
             "U+0438", "U+0439", "U+043A", "U+043B", "U+043C", "U+043D", "U+043E",
             "U+043F", "U+0440", "U+0441", "U+0442", "U+0443", "U+0444", "U+0445",
             "U+0446", "U+0447", "U+0448", "U+0449", "U+044A", "U+044B", "U+044C",
             "U+044D", "U+044E", "U+044F">>

\* str.lower(), character by character
lower(s) ==
    [i \in 1..Len(s) |->
        IF \E j \in 1..Len(UpperCase) : UpperCase[j] = s[i]
        THEN LowerCase[CHOOSE j \in 1..Len(UpperCase) : UpperCase[j] = s[i]]
        ELSE s[i]]

\* the `in` operator on strings: sub occurs in s
contains(s, sub) ==
    \E i \in 0..(Len(s) - Len(sub)) : SubSeq(s, i + 1, i + Len(sub)) = sub

\* ------------------------------------------------------- stock extraction
\* AlkotekaSpider._check_in_stock: True, False or None
check_in_stock(page) ==
    IF page.buy_button THEN Bool(TRUE)
    ELSE IF Truthy(page.in_stock) /\ contains(lower(page.in_stock.s), <<"U+0432", " ", "U+043D", "U+0430", "U+043B", "U+0438", "U+0447", "U+0438", "U+0438">>)
    THEN Bool(TRUE)
    ELSE IF Truthy(page.out_of_stock)
            /\ contains(lower(page.out_of_stock.s), <<"U+043D", "U+0435", "U+0442">>)
    THEN Bool(FALSE)
    ELSE NoneV

\* AlkotekaSpider._extract_stock_count: the number before the unit (U+0448 U+0442) in the first
\* text node, else the data-stock-count attribute when int() accepts it
extract_stock_count(page) ==
    IF page.text_count.t # "none" THEN page.text_count
    ELSE IF page.data_stock_count.kind = "digits"
    THEN Whole(page.data_stock_count.n)
    ELSE NoneV

\* AlkotekaSpider._extract_stock_status
extract_stock_status(page) ==
    IF Truthy(page.status_text) THEN Str(strip(page.status_text.s))
    ELSE IF page.preorder THEN Str(<<"U+041F", "U+0440", "U+0435", "U+0434", "U+0437", "U+0430", "U+043A", "U+0430", "U+0437">>)
    ELSE IF page.on_order THEN Str(<<"U+041F", "U+043E", "U+0434", " ", "U+0437", "U+0430", "U+043A", "U+0430", "U+0437">>)
    ELSE IF page.out_of_stock.t # "none" THEN Str(<<"U+041D", "U+0435", "U+0442", " ", "U+0432", " ", "U+043D", "U+0430", "U+043B", "U+0438", "U+0447", "U+0438", "U+0438">>)
    ELSE IF page.in_stock.t # "none" THEN Str(<<"U+0412", " ", "U+043D", "U+0430", "U+043B", "U+0438", "U+0447", "U+0438", "U+0438">>)
    ELSE NoneV

\* AlkotekaSpider._extract_stock_data
extract_stock_data(page) ==
    LET in_stock == check_in_stock(page)
        count == extract_stock_count(page)
        status == extract_stock_status(page)
    IN IF in_stock.t = "none" /\ ~Truthy(status)
       THEN StockData("none", Absent, Absent, Absent, Absent)
       ELSE StockData("dict",
                      IF in_stock.t # "none" THEN in_stock ELSE Bool(TRUE),
                      IF count.t # "none" THEN count ELSE Whole(0),
                      status,
                      List(<<>>))

\* --------------------------------------------------------- characteristics
\* dict.update(other): the keys of other replace those of d
update(d, other) ==
    [k \in DOMAIN d \cup DOMAIN other |->
        IF k \in DOMAIN other THEN other[k] ELSE d[k]]

\* AlkotekaSpider._extract_characteristics; the page holds what each of the
\* four parsers returns for it
extract_characteristics(page) ==
    LET from_table == update(<<>>, page.table)
        from_list == IF DOMAIN from_table = {}
                     THEN update(from_table, page.list)
                     ELSE from_table
        from_div == IF DOMAIN from_list = {}
                    THEN update(from_list, page.div)
                    ELSE from_list
    IN update(from_div, page.jsonld)

\* ---------------------------------------------------------------- variants
invalid_keywords ==
    {<<"U+0440", "U+0430", "U+0437", "U+043C", "U+0435", "U+0440">>,
     <<"s", "i", "z", "e">>,
     <<"U+043E", "U+0434", "U+0435", "U+0436", "U+0434", "U+0430">>,
     <<"c", "l", "o", "t", "h", "i", "n", "g">>,
     <<"s", "h", "i", "r", "t">>, <<"p", "a", "n", "t", "s">>,
     <<"d", "r", "e", "s", "s">>,
     <<"U+043E", "U+0431", "U+0443", "U+0432", "U+044C">>,
     <<"s", "h", "o", "e">>,
     <<"U+043D", "U+043E", "U+0441", "U+043E", "U+043A">>,
     <<"s", "o", "c", "k">>, <<"w", "i", "d", "t", "h">>,
     <<"U+0434", "U+043B", "U+0438", "U+043D", "U+0430">>,
     <<"h", "e", "i", "g", "h", "t">>,
     <<"U+0432", "U+044B", "U+0441", "U+043E", "U+0442", "U+0430">>,
     <<"m", "a", "t", "e", "r", "i", "a", "l">>,
     <<"U+043C", "U+0430", "U+0442", "U+0435", "U+0440", "U+0438", "U+0430", "U+043B">>,
     <<"U+0442", "U+043A", "U+0430", "U+043D", "U+044C">>,
     <<"f", "a", "b", "r", "i", "c">>, <<"l", "a", "r", "g", "e">>,
     <<"s", "m", "a", "l", "l">>, <<"m", "e", "d", "i", "u", "m">>,
     <<"e", "x", "t", "r", "a">>}

SizeTokens == {<<"x", "s">>, <<"s">>, <<"m">>, <<"l">>, <<"x", "l">>, <<"x", "x", "l">>}

Placeholders == {<<"s", "e", "l", "e", "c", "t">>,
                 <<"U+0432", "U+044B", "U+0431", "U+0440", "U+0430", "U+0442", "U+044C">>,
                 <<"c", "h", "o", "o", "s", "e">>,
                 <<"U+0432", "U+044B", "U+0431", "U+043E", "U+0440">>}

\* re.match of size\s+(xs|s|m|l|xl|xxl)
size_then_token(s) ==
    /\ Len(s) >= 5
    /\ SubSeq(s, 1, 4) = <<"s", "i", "z", "e">>
    /\ s[5] \in Whitespace
    /\ LET rest == lstrip(SubSeq(s, 5, Len(s)))
       IN \E t \in SizeTokens : Len(rest) >= Len(t) /\ SubSeq(rest, 1, Len(t)) = t

\* re.match of (xs|s|m|l|xl|xxl)\s*size
token_then_size(s) ==
    \E t \in SizeTokens :
        /\ Len(s) >= Len(t) /\ SubSeq(s, 1, Len(t)) = t
        /\ LET rest == lstrip(SubSeq(s, Len(t) + 1, Len(s)))
           IN Len(rest) >= 4 /\ SubSeq(rest, 1, 4) = <<"s", "i", "z", "e">>

\* AlkotekaSpider._validate_variant
validate_variant(variant) ==
    IF variant = <<>> THEN FALSE
    ELSE LET normalized == strip(lower(variant))
         IN IF normalized = <<>> \/ Len(normalized) > 100 THEN FALSE
            ELSE IF \E keyword \in invalid_keywords : contains(normalized, keyword)
            THEN FALSE
            ELSE IF \/ normalized \in SizeTokens
                    \/ size_then_token(normalized)
                    \/ token_then_size(normalized)
            THEN FALSE
            ELSE normalized \notin Placeholders

\* AlkotekaSpider._deduplicate_variants: the first label of each trimmed,
\* lower-cased form, in order
RECURSIVE deduplicate_into(_, _)
deduplicate_into(unique, variants) ==
    IF variants = <<>> THEN unique
    ELSE LET variant == Head(variants)
             normalized == strip(lower(variant))
             fresh == \A i \in 1..Len(unique) : strip(lower(unique[i])) # normalized
         IN deduplicate_into(IF fresh THEN Append(unique, variant) ELSE unique,
                             Tail(variants))

deduplicate_variants(variants) == deduplicate_into(<<>>, variants)

\* the loops over option and button texts: trimmed labels that validate
RECURSIVE cleaned_valid(_)
cleaned_valid(texts) ==
    IF texts = <<>> THEN <<>>
    ELSE LET cleaned == strip(Head(texts))
             rest == cleaned_valid(Tail(texts))
         IN IF cleaned # <<>> /\ validate_variant(cleaned)
            THEN <<cleaned>> \o rest
            ELSE rest

\* json.loads of an attribute or script text: none found, not JSON, a list,
\* a dict with a "variants" list, one with an "options" list, another dict
Json(kind, items) == [kind |-> kind, items |-> items]
NoJson == Json("none", <<>>)

\* the entries of a JSON list that validate, as they are written
RECURSIVE valid_entries(_)
valid_entries(items) ==
    IF items = <<>> THEN <<>>
    ELSE LET rest == valid_entries(Tail(items))
         IN IF validate_variant(Head(items)) THEN <<Head(items)>> \o rest ELSE rest

\* AlkotekaSpider._extract_volume_variants
extract_volume_variants(page) ==
    deduplicate_variants(cleaned_valid(page.volume_options)
                         \o cleaned_valid(page.volume_buttons))

\* AlkotekaSpider._extract_color_variants
extract_color_variants(page) ==
    LET gated == IF page.url_has_color
                 THEN page.color_options
                 ELSE SelectSeq(page.color_options,
                                LAMBDA opt : contains(lower(strip(opt)), <<"U+0446", "U+0432", "U+0435", "U+0442">>))
        colors == IF page.available_colors.kind = "list"
                  THEN valid_entries(page.available_colors.items)
                  ELSE <<>>
    IN deduplicate_variants(cleaned_valid(gated)
                            \o cleaned_valid(page.color_buttons)
                            \o colors)

\* AlkotekaSpider._extract_variants_from_json
extract_variants_from_json(page) ==
    LET variants_json == IF page.data_variants.kind # "none"
                         THEN page.data_variants
                         ELSE page.script_json
    IN IF variants_json.kind \in {"list", "variants", "options"}
       THEN Len(valid_entries(variants_json.items))
       ELSE 0

\* AlkotekaSpider._detect_variants
detect_variants(page) ==
    LET volume_variants == extract_volume_variants(page)
        color_variants == extract_color_variants(page)
        variants == {volume_variants[i] : i \in 1..Len(volume_variants)}
                    \cup {color_variants[i] : i \in 1..Len(color_variants)}
        json_variants_count == extract_variants_from_json(page)
    IN IF json_variants_count > 0
       THEN json_variants_count
       ELSE Cardinality({v \in variants : validate_variant(v)})

\* ------------------------------------------------------------------- pages
\* a page without stock markup, characteristics or variant markup
BlankPage ==
    [buy_button |-> FALSE, in_stock |-> NoneV, out_of_stock |-> NoneV,
     preorder |-> FALSE, on_order |-> FALSE, status_text |-> NoneV,
     text_count |-> NoneV, data_stock_count |-> [kind |-> "none", n |-> 0],
     table |-> <<>>, list |-> <<>>, div |-> <<>>, jsonld |-> <<>>,
     url_has_color |-> FALSE, volume_options |-> <<>>, volume_buttons |-> <<>>,
     color_options |-> <<>>, color_buttons |-> <<>>,
     available_colors |-> NoJson, data_variants |-> NoJson,
     script_json |-> NoJson]

\* pages that differ in their stock markup, with counts up to max_count
StockPages(max_count) ==
    {[BlankPage EXCEPT !.buy_button = b, !.in_stock = i, !.out_of_stock = o,
                       !.preorder = p, !.on_order = d, !.status_text = s,
                       !.text_count = c, !.data_stock_count = a] :
        b \in BOOLEAN,
        i \in {NoneV, Str(<<"U+0412", " ", "U+043D", "U+0430", "U+043B", "U+0438", "U+0447", "U+0438", "U+0438">>), Str(<<"U+0421", "U+043A", "U+043E", "U+0440", "U+043E">>)},
        o \in {NoneV, Str(<<"U+041D", "U+0435", "U+0442">>), Str(<<"U+0421", "U+043A", "U+043E", "U+0440", "U+043E">>)},
        p \in BOOLEAN, d \in BOOLEAN,
        s \in {NoneV, Str(<<" ">>), Str(<<"U+041C", "U+0430", "U+043B", "U+043E", " ">>)},
        c \in {NoneV} \cup {Whole(n) : n \in 0..(max_count - 1)},
        a \in {[kind |-> "none", n |-> 0], [kind |-> "other", n |-> 0]}
              \cup {[kind |-> "digits", n |-> n] : n \in 1..max_count}}

\* what one characteristics parser can return: a dict over CharKeys
CharKeys == {"volume", "abv"}
CharValues == {"0.5", "0.7"}
CharDicts(char_keys) == UNION {[keys -> CharValues] : keys \in SUBSET char_keys}

\* pages that differ in their characteristics markup
CharPages(char_keys) ==
    {[BlankPage EXCEPT !.table = t, !.list = l, !.div = d, !.jsonld = j] :
        t \in CharDicts(char_keys), l \in CharDicts(char_keys),
        d \in CharDicts(char_keys), j \in CharDicts(char_keys)}

\* option and button texts
Labels == {<<"1", "l">>, <<"1", "L">>, <<"X", "L">>}
JsonLabels == {<<"1", "l">>, <<"X", "L">>}

JsonDocs(max_labels) ==
    {NoJson, Json("invalid", <<>>), Json("other", <<>>)}
    \cup {Json("list", items) : items \in SeqsUpTo(JsonLabels, max_labels)}
    \cup {Json(kind, items) : kind \in {"variants", "options"},
                              items \in SeqsUpTo(JsonLabels, max_labels - 1)}

\* pages that differ in their variant markup, with up to max_labels labels
\* in a selector
VariantPages(max_labels) ==
    {[BlankPage EXCEPT !.url_has_color = u, !.volume_options = vo,
                       !.volume_buttons = vb, !.color_options = co,
                       !.color_buttons = cb, !.available_colors = ac,
                       !.data_variants = dv, !.script_json = sj] :
        u \in BOOLEAN,
        vo \in SeqsUpTo(Labels, max_labels),
        vb \in {<<>>, <<<<" ", "1", "l">>>>},
        co \in {<<>>, <<<<"1", "L">>>>},
        cb \in SeqsUpTo({<<"1", "L">>, <<"X", "L">>}, max_labels - 1),
        ac \in {NoJson, Json("list", <<<<" ", "1", "l">>>>)},
        dv \in JsonDocs(max_labels),
        sj \in {NoJson, Json("list", <<<<"1", "l">>>>)}}

Pages(max_count, max_labels) ==
    StockPages(max_count) \cup CharPages(CharKeys) \cup VariantPages(max_labels)

\* --------------------------------------------------------- spider actions
\* no page has been fetched
NotParsed ==
    /\ response = BlankPage
    /\ parsed = <<"done">>
    /\ stock = NoStockData
    /\ characteristics = <<>>
    /\ variants_count = 0

\* parse_product receives the response of a product page
SpiderInit ==
    /\ response \in Pages(MaxCount, MaxLabels)
    /\ parsed = <<>>
    /\ stock = NoStockData
    /\ characteristics = <<>>
    /\ variants_count = 0

\* parse_product: stock_data = self._extract_stock_data(response)
ExtractStock ==
    /\ parsed = <<>>
    /\ stock' = extract_stock_data(response)
    /\ parsed' = <<"stock_data">>
    /\ UNCHANGED <<response, characteristics, variants_count>>
    /\ UNCHANGED outsideSpider

\* parse_product: characteristics = self._extract_characteristics(response)
ExtractCharacteristics ==
    /\ parsed = <<"stock_data">>
    /\ characteristics' = extract_characteristics(response)
    /\ parsed' = <<"stock_data", "characteristics">>
    /\ UNCHANGED <<response, stock, variants_count>>
    /\ UNCHANGED outsideSpider

\* parse_product: variants_count = self._detect_variants(response)
DetectVariants ==
    /\ parsed = <<"stock_data", "characteristics">>
    /\ variants_count' = detect_variants(response)
    /\ parsed' = <<"stock_data", "characteristics", "variants_count">>
    /\ UNCHANGED <<response, stock, characteristics>>
    /\ UNCHANGED outsideSpider

SpiderNext == ExtractStock \/ ExtractCharacteristics \/ DetectVariants

\* ----------------------------------------------------------- specifications
\* the proxy middleware alone, no item in the pipelines
ProxySpecInit == ProxyInit /\ PipeInit /\ FreshInit /\ NotCalled /\ NotParsed

ProxySpec == ProxySpecInit /\ [][ProxyNext]_vars

\* the item pipelines alone, proxy middleware disabled and idle
PipeSpecInit == PipeInit /\ ProxyIdle /\ FreshInit /\ NotCalled /\ NotParsed

PipeSpec == PipeSpecInit /\ [][PipeNext]_vars

\* one DefaultValuesPipeline instance and the containers of its records
FreshSpecInit == FreshInit /\ PipeInit /\ ProxyIdle /\ NotCalled /\ NotParsed

FreshSpec == FreshSpecInit /\ [][FreshNext]_vars

\* calculate_discount applied to every pair of operands
CalcSpecInit == CalcInit /\ PipeInit /\ ProxyIdle /\ FreshInit /\ NotParsed

CalcSpec == CalcSpecInit /\ [][CalcNext]_vars

\* parse_product applied to every page
SpiderSpecInit == SpiderInit /\ PipeInit /\ ProxyIdle /\ FreshInit /\ NotCalled

SpiderSpec == SpiderSpecInit /\ [][SpiderNext]_vars

\* ------------------------------------------------------------------ claims
PoolSet == {proxies[i] : i \in 1..Len(proxies)}

Acquired == last.op = "process_request" /\ last.acquired

\* C1: a non-none result of _get_next_proxy is a member of the loaded pool
\* and is not in the blacklist at the moment of the call.
C1_AcquireNeverBlacklisted ==
    (Acquired /\ last.proxy # None) =>
        /\ last.proxy \in PoolSet
        /\ last.proxy \notin last.before
        /\ last.proxy \notin blacklist

C1_Witness ==
    /\ Acquired
    /\ last.proxy # None
    /\ last.before # {}
    /\ last.advances > 1

\* C2: a proxy is blacklisted exactly when its most recent outcome report
\* was a failure (a failure adds it, a later success removes it), and no
\* acquire returns a proxy whose most recent report is a failure.
C2_BlacklistIsLastFailure ==
    /\ \A p \in Proxies : (p \in blacklist) <=> (lastReport[p] = "failure")
    /\ (Acquired /\ last.proxy # None) => lastReport[last.proxy] # "failure"

C2_Witness ==
    /\ last.op = "process_response"
    /\ last.proxy \in last.before
    /\ last.proxy \notin blacklist
    /\ lastReport[last.proxy] = "success"

\* C3: _get_next_proxy returns within one scan of the rotation (at most
\* len(proxies) cursor advances); it returns a non-blacklisted proxy whenever
\* one exists, and none only when disabled, empty or fully blacklisted.
C3_AcquireWithinOneScan ==
    last.op = "process_request" =>
        /\ last.advances <= Len(proxies)
        /\ (enabled /\ PoolSet \ last.before # {}) =>
               (last.proxy # None /\ last.proxy \notin last.before)
        /\ last.proxy = None =>
               (~enabled \/ proxies = <<>> \/ PoolSet \subseteq last.before)

C3_Witness ==
    /\ Acquired
    /\ Len(proxies) >= 2
    /\ last.advances = Len(proxies)
    /\ last.proxy # None

\* C4: while no proxy is blacklisted the k-th acquire returns
\* proxies[(k-1) mod N] (fixed cyclic load order, cursor shared by calls).
C4_RotationFollowsLoadOrder ==
    (Acquired /\ counts.cleanAcquires) =>
        last.proxy = proxies[((counts.acquires - 1) % Len(proxies)) + 1]

C4_Witness ==
    /\ Acquired
    /\ counts.cleanAcquires
    /\ Len(proxies) = 3
    /\ Cardinality(PoolSet) = 3
    /\ counts.acquires = 6
    /\ last.proxy = proxies[3]

\* C5: no counter update is lost under interleaved hook calls: total is the
\* number of proxy assignments, success the number of responses and failed
\* the number of exceptions processed for proxy-carrying requests.
C5_NoLostCounterUpdate ==
    /\ stats.total = counts.assigned
    /\ stats.success = counts.responses
    /\ stats.failed = counts.exceptions

C5_Witness ==
    /\ \A r \in 1..MaxInFlight : requests[r].st = "sent"
    /\ stats.total >= 3
    /\ stats.success >= 1
    /\ stats.failed >= 1

Required == {"product_id", "name", "product_url", "scraped_at"}

\* absent, None or the empty string
AbsentOrEmpty(v) == v.t \in {"absent", "none"} \/ (v.t = "str" /\ v.s = <<>>)

StageOrder == <<"ValidationPipeline", "DefaultValuesPipeline", "DataCleaningPipeline">>

C8_NestedCurrentClampedToOriginal ==
    (/\ stage = "Cleaned"
     /\ candidate.price_data.t = "dict"
     /\ candidate.price_data.current.t = "num"
     /\ candidate.price_data.original.t = "num"
     /\ candidate.price_data.current.n > candidate.price_data.original.n)
    => record.price_data.current = record.price_data.original

C10_DiscountWithinRange ==
    (stage = "Cleaned" /\ candidate.discount_percentage.t = "num")
    => /\ record.discount_percentage.t = "num"
       /\ 0 <= record.discount_percentage.n
       /\ record.discount_percentage.n <= 2 * 100

C12_StockCountNotNegative ==
    stage \in {"Validated", "Defaulted", "Cleaned"} =>
        /\ (record.stock_data.t = "dict" /\ Converts(record.stock_data.count))
              => Float(record.stock_data.count) >= 0
        /\ (/\ candidate.stock_data.t = "dict"
            /\ candidate.stock_data.count.t = "num"
            /\ candidate.stock_data.count.n < 0)
              => record.stock_data.count = Whole(0)

C12_Witness ==
    /\ stage = "Cleaned"
    /\ candidate.stock_data.t = "dict"
    /\ candidate.stock_data.count = Num(-MaxStock)
    /\ record.stock_data.count = Whole(0)

PriceDataKeys == {"current", "original", "sale_tag", "currency"}
StockDataKeys == {"in_stock", "count", "status", "available_regions"}
AssetsKeys == {"main_image", "gallery_images", "view_360", "video", "cached_images"}

\* C13: after Defaulting, each of price_data, stock_data and assets that is
\* a mapping (partial or empty) holds every one of its declared sub-keys.
C13_NestedSubKeysPresent ==
    stage = "Defaulted" =>
        /\ record.price_data.t = "dict" =>
              \A k \in PriceDataKeys : record.price_data[k].t # "absent"
        /\ record.stock_data.t = "dict" =>
              \A k \in StockDataKeys : record.stock_data[k].t # "absent"
        /\ record.assets.t = "dict" =>
              \A k \in AssetsKeys : record.assets[k].t # "absent"

\* C14: each stage applied to its own output gives that output again:
\* Validation on every record it accepts, Defaulting under one clock
\* reading, and Cleaning.
C14_StagesIdempotent ==
    Live =>
        /\ LET once == ValidationPipeline_process_item(record)
               twice == ValidationPipeline_process_item(once.item)
           IN once.outcome = "ok" =>
                 (twice.outcome = "ok" /\ twice.item = once.item)
        /\ \A now \in Clock :
              LET once == DefaultValuesPipeline_process_item(record, now)
              IN DefaultValuesPipeline_process_item(once, now) = once
        /\ LET once == DataCleaningPipeline_process_item(record)
           IN DataCleaningPipeline_process_item(once) = once

\* C15: every candidate ends as an accepted record or as Rejected with the
\* missing required fields as reasons; no stage ends with another error and
\* no stage after Validation drops the record.
C15_AcceptedOrRejectedOnly ==
    trail # <<>> =>
        /\ stage \in {"Rejected", "Validated", "Defaulted", "Cleaned"}
        /\ stage = "Rejected" <=> reasons # <<>>
        /\ stage = "Rejected" => Len(trail) = 1

\* the trimmed values of the non-empty entries of a tag list
TrimmedEntries(l) == {strip(l[i]) : i \in {j \in 1..Len(l) : l[j] # <<>>}}

\* out lists exactly the strings of S in strictly ascending code-point order
SortedDistinct(out, S) ==
    /\ {out[i] : i \in 1..Len(out)} = S
    /\ \A i, j \in 1..Len(out) : i < j => less(out[i], out[j])

\* C16: after Cleaning, tags and marketing_tags each list the distinct
\* trimmed values of the non-empty entries of the candidate's list, sorted
\* ascending, with upper and lower case kept apart.
C16_TagsSortedDistinct ==
    stage = "Cleaned" =>
        \A f \in {"tags", "marketing_tags"} :
            candidate[f].t = "list" =>
                /\ record[f].t = "list"
                /\ SortedDistinct(record[f].l, TrimmedEntries(candidate[f].l))

C16_Witness ==
    /\ stage = "Cleaned"
    /\ candidate.tags = List(<<<<"b">>, <<"a">>, <<"a">>>>)
    /\ record.tags = List(<<<<"a">>, <<"b">>>>)

\* the positions of l whose element occurs at no earlier position
FirstPositions(l) == {i \in 1..Len(l) : \A j \in 1..(i - 1) : l[j] # l[i]}

\* out lists the elements of l at their first occurrence, in that order
FirstOccurrences(out, l) ==
    /\ Len(out) = Cardinality(FirstPositions(l))
    /\ \A k \in 1..Len(out) :
          \E i \in FirstPositions(l) :
              /\ Cardinality({j \in FirstPositions(l) : j < i}) = k - 1
              /\ out[k] = l[i]

\* C17: after Cleaning, image_urls and the four list-valued assets each hold
\* the distinct elements of the candidate's list in first-occurrence order.
C17_UrlsDistinctInOrder ==
    stage = "Cleaned" =>
        /\ candidate.image_urls.t = "list" =>
              /\ record.image_urls.t = "list"
              /\ FirstOccurrences(record.image_urls.l, candidate.image_urls.l)
        /\ candidate.assets.t = "dict" =>
              \A k \in AssetsKeys \ {"main_image"} :
                  candidate.assets[k].t = "list" =>
                      /\ record.assets[k].t = "list"
                      /\ FirstOccurrences(record.assets[k].l, candidate.assets[k].l)

C17_Witness ==
    /\ stage = "Cleaned"
    /\ candidate.image_urls = List(<<<<"b">>, <<"a">>, <<"b">>>>)
    /\ record.image_urls = List(<<<<"b">>, <<"a">>>>)

C18_DefaultsFreshPerRecord ==
    /\ \A f \in CollectionFields : heap[defaults[f]] = <<>>
    /\ \A i \in 1..Len(processed) : \A f \in CollectionFields :
          heap[processed[i][f]] = owned[i][f]

C18_Witness ==
    /\ Len(processed) = 2
    /\ owned[1].tags = <<"x">>
    /\ heap[processed[1].tags] = <<"x">>
    /\ heap[processed[2].tags] = <<>>
    /\ heap[defaults.tags] = <<>>

\* C19: calculate_discount returns None when an operand is None or zero or
\* original <= 0; otherwise it returns the whole number r in [0, 100] that
\* is (original - current) / original * 100 clamped to [0, 100] and rounded
\* down.
C19_DiscountClampedRoundedDown ==
    discount # Absent =>
        IF \/ IsNone(arg_original) \/ IsNone(arg_current)
           \/ arg_original.n = 0 \/ arg_current.n = 0
           \/ arg_original.n <= 0
        THEN discount = NoneV
        ELSE /\ discount.t = "num"
             /\ discount.n % 2 = 0
             /\ LET r == discount.n \div 2
                    num == (arg_original.n - arg_current.n) * 100
                    den == arg_original.n
                IN /\ 0 <= r
                   /\ r <= 100
                   /\ IF num <= 0 THEN r = 0
                      ELSE IF num >= 100 * den THEN r = 100
                      ELSE r * den <= num /\ num < (r + 1) * den

NestedFields == {"price_data", "stock_data", "assets", "attributes"}

\* the record as Defaulting received it
BeforeDefaults == ValidationPipeline_process_item(candidate).item

C22_RetryIffProxyLeft ==
    (last.op = "process_exception" /\ last.proxy # None) =>
        (last.retry <=> \E i \in 1..Len(proxies) : proxies[i] \notin blacklist)

\* ---------------------------------------------------------------------- C27
\* entries of the pool whose proxy is not blacklisted
NotBlacklisted == {i \in 1..Len(proxies) : proxies[i] \notin blacklist}

\* C27: the pool never changes after loading, the blacklist is a subset of
\* the pool, and get_stats reports as available_proxies the number of pool
\* proxies that are not blacklisted: never negative, and 0 exactly when an
\* acquisition would return no proxy.
C27_AvailableIsNotBlacklisted ==
    /\ [][proxies' = proxies]_vars
    /\ [](/\ blacklist \subseteq {proxies[i] : i \in 1..Len(proxies)}
          /\ get_stats.available_proxies = Cardinality(NotBlacklisted)
          /\ get_stats.available_proxies >= 0
          /\ (get_stats.available_proxies = 0 <=>
                get_next_proxy(proxy_pool, proxies, blacklist).proxy = None))

\* ---------------------------------------------------------------------- C28
\* C28: a request that leaves process_request, a retry copy included, carries
\* in meta['proxy'] and meta['proxy_current'] no proxy that is blacklisted at
\* that moment.
C28_SentProxyNotBlacklisted ==
    last.op = "process_request" =>
        /\ requests[last.req].meta.proxy \notin blacklist
        /\ requests[last.req].meta.proxy_current \notin blacklist

\* ---------------------------------------------------------------------- C29
\* C29: the outcomes counted by process_response and process_exception never
\* outnumber the assignments counted by process_request.
C29_OutcomesWithinTotal == stats.success + stats.failed <= stats.total

\* ---------------------------------------------------------------------- C30
\* C30: while no success has been reported, a logical request (its first
\* attempt and its retry copies) is given a further retry only after fewer
\* than len(proxies) failures of its own, whatever the other requests do.
C30_RetryChainWithinPool ==
    (counts.responses = 0 /\ last.op = "process_exception" /\ last.retry) =>
        last.failures < Len(proxies)

\* ---------------------------------------------------------------------- C23
\* parse_product has made the extraction step
Parsed(step) == \E i \in 1..Len(parsed) : parsed[i] = step

\* the page has no purchase button, no in-stock text marker and no
\* out-of-stock text marker
NoStockMarker ==
    /\ ~response.buy_button
    /\ response.in_stock # Str(<<"U+0412", " ", "U+043D", "U+0430", "U+043B", "U+0438", "U+0447", "U+0438", "U+0438">>)
    /\ response.out_of_stock # Str(<<"U+041D", "U+0435", "U+0442">>)

\* C23: for a page with neither a purchase element nor an in-stock or
\* out-of-stock text marker, the extracted stock data leaves in_stock absent
\* or None: extraction never defaults it to true or false.
C23_InStockStaysUnknown ==
    (Parsed("stock_data") /\ NoStockMarker) =>
        stock.in_stock.t \in {"absent", "none"}

\* ---------------------------------------------------------------------- C24
\* the pairs of the first markup source, in the order table, list, div, that
\* yielded any
MarkupPairs ==
    IF DOMAIN response.table # {} THEN response.table
    ELSE IF DOMAIN response.list # {} THEN response.list
    ELSE response.div

\* C24: the characteristics are the pairs of the first non-empty markup
\* source, plus the structured-data pairs under the keys that source does not
\* have; a value from markup is never replaced by the structured-data value.
C24_StructuredDataNeverOverwrites ==
    Parsed("characteristics") =>
        /\ DOMAIN characteristics = DOMAIN MarkupPairs \cup DOMAIN response.jsonld
        /\ \A k \in DOMAIN characteristics :
              characteristics[k] = IF k \in DOMAIN MarkupPairs
                                   THEN MarkupPairs[k]
                                   ELSE response.jsonld[k]

\* ---------------------------------------------------------------------- C25
\* the JSON document _extract_variants_from_json reads
EmbeddedJson ==
    IF response.data_variants.kind # "none" THEN response.data_variants
    ELSE response.script_json

HasJsonList == EmbeddedJson.kind \in {"list", "variants", "options"}

\* C25: when the page embeds a parseable JSON variant or options list, the
\* variant count is the number of entries of that list that pass the
\* validator, whatever the volume and color markup holds.
C25_JsonListIsSoleSource ==
    (Parsed("variants_count") /\ HasJsonList) =>
        variants_count =
            Cardinality({i \in 1..Len(EmbeddedJson.items) :
                            validate_variant(EmbeddedJson.items[i])})

\* ---------------------------------------------------------------------- C26
\* the validated labels the volume and color selectors contribute
MarkupLabels ==
    LET volume_variants == extract_volume_variants(response)
        color_variants == extract_color_variants(response)
    IN {volume_variants[i] : i \in 1..Len(volume_variants)}
       \cup {color_variants[i] : i \in 1..Len(color_variants)}

\* C26: without a JSON list, the variant count is the number of distinct
\* validated markup labels, volume and color sources taken together, where
\* labels that differ only in letter case or surrounding whitespace are one.
C26_CountsDistinctNormalizedLabels ==
    (Parsed("variants_count") /\ ~HasJsonList) =>
        variants_count = Cardinality({strip(lower(l)) : l \in MarkupLabels})

====
